---------------------------- MODULE Spec2Model ----------------------------
(***************************************************************************)
(* A model of the preprocessing facade (preprocessing.py) and of the       *)
(* statistics it relies on (food_statistics.py).                           *)
(*                                                                         *)
(* A Dataset is a Python dict of lists: `keys` is the insertion order of   *)
(* the dict, `col` maps each key to its list of cells.  A cell is None, an *)
(* int, a float or a str.  Numbers are kept exactly, as q * sqrt(r) with q *)
(* the fraction n/d in lowest terms and r a square-free radicand (r = 1    *)
(* for a rational): this is closed under everything the code computes      *)
(* (sums and differences inside one column, quotients, variance ** 0.5),   *)
(* so floats are read as the reals they approximate.                       *)
(***************************************************************************)
EXTENDS Integers, Sequences, FiniteSets, TLC

(***************************************************************************)
(* Bounds of the model.                                                    *)
(***************************************************************************)
\* the longest column of an initial dataset, where one call is followed
MaxRows == 3

\* the longest column of an initial dataset, where sequences of calls are followed
MaxChainRows == 2

(***************************************************************************)
(* Cells.                                                                  *)
(***************************************************************************)
NoneCell == [k |-> "none", n |-> 0, d |-> 1, r |-> 1, s |-> ""]

IntCell(i) == [k |-> "int", n |-> i, d |-> 1, r |-> 1, s |-> ""]

StrCell(t) == [k |-> "str", n |-> 0, d |-> 1, r |-> 1, s |-> t]

IsNone(c) == c.k = "none"

\* isinstance(value, (int, float))
IsNumeric(c) == c.k \in {"int", "float"}

Abs(i) == IF i < 0 THEN -i ELSE i

RECURSIVE GCD(_, _)
GCD(a, b) == IF b = 0 THEN a ELSE GCD(b, a % b)

\* the largest s with s*s dividing m (m > 0)
SquarePart(m) ==
    LET cand == {s \in 1..m : s * s <= m /\ m % (s * s) = 0}
    IN  CHOOSE s \in cand : \A t \in cand : t <= s

\* the float n/d * sqrt(r), in normal form
FloatCell(n, d, r) ==
    IF n = 0 THEN [k |-> "float", n |-> 0, d |-> 1, r |-> 1, s |-> ""]
    ELSE LET sp == SquarePart(r)
             nn == n * sp
             g  == GCD(Abs(nn), Abs(d))
             sg == IF d < 0 THEN -1 ELSE 1
         IN  [k |-> "float", n |-> (sg * nn) \div g, d |-> (sg * d) \div g,
              r |-> r \div (sp * sp), s |-> ""]

\* Python's == on two cells: numbers compare by value (1 == 1.0), strings by
\* text, None only equals None
PyEq(a, b) ==
    IF IsNumeric(a) /\ IsNumeric(b)
    THEN a.n = b.n /\ a.d = b.d /\ a.r = b.r
    ELSE a.k = b.k /\ a.s = b.s

\* sign(x) * x^2 as a fraction <<numerator, denominator>>: orders the reals
SignedSquare(a) == <<(IF a.n < 0 THEN -1 ELSE 1) * a.n * a.n * a.r, a.d * a.d>>

\* a < b on numbers
NumLess(a, b) ==
    LET x == SignedSquare(a)
        y == SignedSquare(b)
    IN  x[1] * y[2] < y[1] * x[2]

\* a + b; within one column every non-zero number has the same radicand
NumAdd(a, b) ==
    CASE a.n = 0 -> [b EXCEPT !.k = IF a.k = "int" /\ b.k = "int" THEN "int" ELSE "float"]
      [] b.n = 0 -> [a EXCEPT !.k = IF a.k = "int" /\ b.k = "int" THEN "int" ELSE "float"]
      [] a.n # 0 /\ b.n # 0 /\ a.r = b.r ->
            IF a.k = "int" /\ b.k = "int" THEN IntCell(a.n + b.n)
            ELSE FloatCell(a.n * b.d + b.n * a.d, a.d * b.d, a.r)

NumNeg(a) == [a EXCEPT !.n = -a.n]

NumSub(a, b) == NumAdd(a, NumNeg(b))

\* a * b (a float unless both are ints)
NumMul(a, b) ==
    IF a.k = "int" /\ b.k = "int" THEN IntCell(a.n * b.n)
    ELSE FloatCell(a.n * b.n, a.d * b.d, a.r * b.r)

\* a / b, Python's true division: always a float (b # 0)
NumDiv(a, b) == FloatCell(a.n * b.d, a.d * b.n * b.r, a.r * b.r)

\* the float 0.0
Zero == [k |-> "float", n |-> 0, d |-> 1, r |-> 1, s |-> ""]

\* a ** 0.5 for a rational a >= 0
NumSqrt(a) == IF a.n = 0 THEN Zero ELSE FloatCell(1, a.d, a.n * a.d)

(***************************************************************************)
(* Datasets.                                                               *)
(***************************************************************************)
EmptyDataset == [keys |-> <<>>, col |-> <<>>]

Keys(ds) == {ds.keys[i] : i \in 1..Len(ds.keys)}

\* column in self.dataset
HasCol(ds, c) == c \in Keys(ds)

\* dataset[c] = values: a new key goes last, an existing key keeps its place
SetCol(ds, c, values) ==
    [keys |-> IF HasCol(ds, c) THEN ds.keys ELSE Append(ds.keys, c),
     col  |-> [x \in Keys(ds) \cup {c} |-> IF x = c THEN values ELSE ds.col[x]]]

\* del dataset[c] left out
DelColSkipped(ds, c) == ds

\* del dataset[c]
DelCol(ds, c) ==
    [keys |-> SelectSeq(ds.keys, LAMBDA x : x # c),
     col  |-> [x \in Keys(ds) \ {c} |-> ds.col[x]]]

\* the list without its element at (1-based) position i: del data[col][idx]
RemoveAt(seq, i) == [j \in 1..(Len(seq) - 1) |-> IF j < i THEN seq[j] ELSE seq[j + 1]]

(***************************************************************************)
(* food_statistics.py: Statistics.  A result is [err, val]; err is "none"  *)
(* or the exception raised.                                                *)
(***************************************************************************)
Ok(v) == [err |-> "none", val |-> v]

Raise(e) == [err |-> e, val |-> NoneCell]

\* Statistics.__init__: the type and shape checks on the dataset
StatisticsInit(ds) ==
    IF \A i, j \in 1..Len(ds.keys) : Len(ds.col[ds.keys[i]]) = Len(ds.col[ds.keys[j]])
    THEN "none" ELSE "ValueError"

ValidateColumn(ds, c) == IF HasCol(ds, c) THEN "none" ELSE "KeyError"

ValidateNumericColumn(ds, c) ==
    IF ~HasCol(ds, c) THEN "KeyError"
    ELSE IF ds.col[c] = <<>> THEN "none"
    ELSE IF \E i \in 1..Len(ds.col[c]) : ~IsNumeric(ds.col[c][i]) THEN "TypeError"
    ELSE "none"

\* sum(data): starts from the int 0
RECURSIVE SumCells(_)
SumCells(seq) ==
    IF seq = <<>> THEN IntCell(0)
    ELSE NumAdd(SumCells(SubSeq(seq, 1, Len(seq) - 1)), seq[Len(seq)])

MeanOf(data) == IF data = <<>> THEN Zero ELSE NumDiv(SumCells(data), IntCell(Len(data)))

Mean(ds, c) ==
    LET e == ValidateNumericColumn(ds, c)
    IN  IF e # "none" THEN Raise(e) ELSE Ok(MeanOf(ds.col[c]))

\* the strings of the model in Python's order (by code point: '_' < 'd' < 'x' < 'y')
Collation == <<"__MISSING__", "d", "x", "y">>

\* s < t on strings
StrLess(s, t) ==
    LET pos(u) == CHOOSE i \in 1..Len(Collation) : Collation[i] = u
    IN  pos(s) < pos(t)

\* a < b on two cells of one kind (numbers, or strings)
CellLess(a, b) == IF IsNumeric(a) THEN NumLess(a, b) ELSE StrLess(a.s, b.s)

\* sorted(data): stable, ascending
RECURSIVE Insert(_, _)
Insert(sorted, x) ==
    IF sorted = <<>> THEN <<x>>
    ELSE IF CellLess(x, sorted[Len(sorted)])
         THEN Append(Insert(SubSeq(sorted, 1, Len(sorted) - 1), x), sorted[Len(sorted)])
         ELSE Append(sorted, x)

RECURSIVE Sorted(_)
Sorted(seq) ==
    IF seq = <<>> THEN <<>>
    ELSE Insert(Sorted(SubSeq(seq, 1, Len(seq) - 1)), seq[Len(seq)])

Median(ds, c) ==
    LET e == ValidateNumericColumn(ds, c)
        sorted_data == Sorted(ds.col[c])
        size == Len(sorted_data)
    IN  IF e # "none" THEN Raise(e)
        ELSE IF size < 1 THEN Ok(Zero)
        ELSE IF size % 2 = 0
             THEN Ok(NumDiv(NumAdd(sorted_data[size \div 2], sorted_data[size \div 2 + 1]),
                            IntCell(2)))
        ELSE Ok(sorted_data[size \div 2 + 1])

\* the number of cells of data equal to item
CountOf(data, item) == Cardinality({i \in 1..Len(data) : PyEq(data[i], item)})

\* the keys of the frequency dict, in insertion order: each value at its first
\* occurrence
FirstOccurrences(data) ==
    LET firsts == {i \in 1..Len(data) : \A j \in 1..(i - 1) : ~PyEq(data[j], data[i])}
        Pick[k \in 0..Len(data)] ==
            IF k = 0 THEN <<>>
            ELSE IF k \in firsts THEN Append(Pick[k - 1], data[k]) ELSE Pick[k - 1]
    IN  Pick[Len(data)]

\* Statistics.absolute_frequency: a sequence of [item, count], in dict order
AbsoluteFrequency(data) ==
    LET items == FirstOccurrences(data)
    IN  [i \in 1..Len(items) |-> [item |-> items[i], count |-> CountOf(data, items[i])]]

\* ModeOf without the comparison with the maximum frequency
ModeOfAnyFrequency(data) == FirstOccurrences(data)

\* Statistics.mode on the column's list: every item of maximum frequency
ModeOf(data) ==
    LET frequencies == AbsoluteFrequency(data)
        maxFrequency == CHOOSE m \in {frequencies[i].count : i \in 1..Len(frequencies)} :
                            \A i \in 1..Len(frequencies) : frequencies[i].count <= m
        sel == SelectSeq(frequencies, LAMBDA f : f.count = maxFrequency)
    IN  IF data = <<>> THEN <<>> ELSE [i \in 1..Len(sel) |-> sel[i].item]

Mode(ds, c) ==
    LET e == ValidateColumn(ds, c)
    IN  IF e # "none" THEN Raise(e) ELSE Ok(ModeOf(ds.col[c]))

\* Statistics.itemset on the column's list: set(data), one cell for each value
ItemsetOf(data) == {FirstOccurrences(data)[i] : i \in 1..Len(FirstOccurrences(data))}

\* Statistics._deviation
Deviation(data) == [i \in 1..Len(data) |-> NumSub(data[i], MeanOf(data))]

StdevOf(data) ==
    LET deviations == Deviation(data)
        squares == [i \in 1..Len(data) |-> NumMul(deviations[i], deviations[i])]
        total_sum == NumAdd(Zero, SumCells(squares))
        variance == NumDiv(total_sum, IntCell(Len(data)))
    IN  IF data = <<>> THEN Zero ELSE NumSqrt(variance)

Stdev(ds, c) ==
    LET e == ValidateNumericColumn(ds, c)
    IN  IF e # "none" THEN Raise(e) ELSE Ok(StdevOf(ds.col[c]))

(***************************************************************************)
(* preprocessing.py: MissingValueProcessor.  `targets` is the list that    *)
(* _get_target_columns returned.  A call's outcome is [ds, err, ret]: the  *)
(* dataset as the call leaves it, the exception raised ("none" if it       *)
(* returned) and the value returned.                                       *)
(***************************************************************************)
Outcome(ds, e, r) == [ds |-> ds, err |-> e, ret |-> r]

\* list(columns) if columns else list(self.dataset.keys()); `order` is the
\* iteration order of the set `columns`
GetTargetColumns(ds, order) == IF order # <<>> THEN order ELSE ds.keys

\* ScanNull looking at the first target column only
ScanNullFirstColumn(ds, targets, i, k) ==
    IF ~HasCol(ds, targets[1]) THEN "KeyError"
    ELSE IF i > Len(ds.col[targets[1]]) THEN "IndexError"
    ELSE IF IsNone(ds.col[targets[1]][i]) THEN "true"
    ELSE "false"

\* any(data[col][i] is None for col in targets), and the negation of
\* all(data[col][i] is not None for col in targets): both stop at the first None
RECURSIVE ScanNull(_, _, _, _)
ScanNull(ds, targets, i, k) ==
    IF k > Len(targets) THEN "false"
    ELSE IF ~HasCol(ds, targets[k]) THEN "KeyError"
    ELSE IF i > Len(ds.col[targets[k]]) THEN "IndexError"
    ELSE IF IsNone(ds.col[targets[k]][i]) THEN "true"
    ELSE ScanNull(ds, targets, i, k + 1)

\* for col in targets: out[col].append(data[col][i]): the first failure, if any
RECURSIVE ReadRow(_, _, _, _)
ReadRow(ds, targets, i, k) ==
    IF k > Len(targets) THEN "none"
    ELSE IF ~HasCol(ds, targets[k]) THEN "KeyError"
    ELSE IF i > Len(ds.col[targets[k]]) THEN "IndexError"
    ELSE ReadRow(ds, targets, i, k + 1)

\* what the loop body does with row i when rows with scan = want are kept
RowStep(ds, targets, i, want) ==
    LET sc == ScanNull(ds, targets, i, 1)
    IN  IF sc \notin {"true", "false"} THEN sc
        ELSE IF sc # want THEN "skip"
        ELSE IF ReadRow(ds, targets, i, 1) # "none" THEN ReadRow(ds, targets, i, 1)
        ELSE "take"

\* the rows kept, as a new dataset over the target columns
SelectRows(ds, targets, want) ==
    LET lines_length == Len(ds.col[targets[1]])
        step == [i \in 1..lines_length |-> RowStep(ds, targets, i, want)]
        bad == {i \in 1..lines_length : step[i] \notin {"take", "skip"}}
        taken == SelectSeq([i \in 1..lines_length |-> i], LAMBDA i : step[i] = "take")
        out == [keys |-> targets,
                col |-> [c \in {targets[k] : k \in 1..Len(targets)} |->
                           [j \in 1..Len(taken) |-> ds.col[c][taken[j]]]]]
    IN  IF bad # {}
        THEN Outcome(ds, step[CHOOSE i \in bad : \A j \in bad : i <= j], EmptyDataset)
        ELSE Outcome(ds, "none", out)

\* MissingValueProcessor.isna / notna
FilterNa(ds, order, want) ==
    LET targets == GetTargetColumns(ds, order)
    IN  IF targets = <<>> THEN Outcome(ds, "IndexError", EmptyDataset)
        ELSE IF ~HasCol(ds, targets[1]) THEN Outcome(ds, "KeyError", EmptyDataset)
        ELSE SelectRows(ds, targets, want)

Isna(ds, order) == FilterNa(ds, order, "true")

Notna(ds, order) == FilterNa(ds, order, "false")

\* the scalar fillna computes for one column, as a Statistics result
FillValue(ds, c, method, default_value) ==
    CASE method = "mean" -> Mean(ds, c)
      [] method = "median" -> Median(ds, c)
      [] method = "mode" ->
            IF Mode(ds, c).err # "none" THEN Mode(ds, c)
            ELSE IF Mode(ds, c).val # <<>> THEN Ok(Mode(ds, c).val[1])
            ELSE Ok(default_value)
      [] method = "default_value" -> Ok(default_value)
      [] OTHER -> Ok(IntCell(0))

\* for line, value in enumerate(data[col]): if value is None: data[col][line] = fill
FillColumn(data, fill_value) ==
    [i \in 1..Len(data) |-> IF IsNone(data[i]) THEN fill_value ELSE data[i]]

\* the loop of fillna from the k-th target column on
RECURSIVE FillnaFrom(_, _, _, _, _)
FillnaFrom(ds, targets, k, method, default_value) ==
    IF k > Len(targets) THEN Outcome(ds, "none", EmptyDataset)
    ELSE LET col == targets[k]
             fv == FillValue(ds, col, method, default_value)
         IN  IF fv.err # "none" THEN Outcome(ds, fv.err, EmptyDataset)
             ELSE IF ~HasCol(ds, col) THEN Outcome(ds, "KeyError", EmptyDataset)
             ELSE FillnaFrom(SetCol(ds, col, FillColumn(ds.col[col], fv.val)),
                             targets, k + 1, method, default_value)

\* MissingValueProcessor.fillna
Fillna(ds, order, method, default_value) ==
    FillnaFrom(ds, GetTargetColumns(ds, order), 1, method, default_value)

\* DeleteRows deleting from the first column of the dict only
RECURSIVE DeleteRowsFirstColumn(_, _, _)
DeleteRowsFirstColumn(ds, idxs, k) ==
    IF k > Len(idxs) THEN ds
    ELSE DeleteRowsFirstColumn(
             [ds EXCEPT !.col = [c \in Keys(ds) |->
                 IF c = ds.keys[1] THEN RemoveAt(ds.col[c], idxs[k]) ELSE ds.col[c]]],
             idxs, k + 1)

\* for idx in reversed_idx_del_list: for col in data: del data[col][idx]
RECURSIVE DeleteRows(_, _, _)
DeleteRows(ds, idxs, k) ==
    IF k > Len(idxs) THEN ds
    ELSE DeleteRows([ds EXCEPT !.col = [c \in Keys(ds) |-> RemoveAt(ds.col[c], idxs[k])]],
                    idxs, k + 1)

\* Descending without reverse=True
DescendingNotReversed(idx_to_delete) == idx_to_delete

\* sorted(idx_to_delete, reverse=True)
Descending(idx_to_delete) ==
    [j \in 1..Len(idx_to_delete) |-> idx_to_delete[Len(idx_to_delete) + 1 - j]]

\* MissingValueProcessor.dropna
Dropna(ds, order) ==
    LET targets == GetTargetColumns(ds, order)
        lines_length == Len(ds.col[targets[1]])
        scan == [i \in 1..lines_length |-> ScanNull(ds, targets, i, 1)]
        bad == {i \in 1..lines_length : scan[i] \notin {"true", "false"}}
        idx_to_delete == SelectSeq([i \in 1..lines_length |-> i], LAMBDA i : scan[i] = "true")
    IN  IF targets = <<>> THEN Outcome(ds, "IndexError", EmptyDataset)
        ELSE IF ~HasCol(ds, targets[1]) THEN Outcome(ds, "KeyError", EmptyDataset)
        ELSE IF bad # {}
        THEN Outcome(ds, scan[CHOOSE i \in bad : \A j \in bad : i <= j], EmptyDataset)
        ELSE Outcome(DeleteRows(ds, Descending(idx_to_delete), 1), "none", EmptyDataset)

(***************************************************************************)
(* preprocessing.py: Scaler.                                               *)
(***************************************************************************)
\* [x for x in data if x is not None]
ValidValues(data) == SelectSeq(data, LAMBDA x : ~IsNone(x))

\* min(valid_values), max(valid_values)
MinOf(values) == CHOOSE m \in {values[i] : i \in 1..Len(values)} :
                    \A i \in 1..Len(values) : ~NumLess(values[i], m)

MaxOf(values) == CHOOSE m \in {values[i] : i \in 1..Len(values)} :
                    \A i \in 1..Len(values) : ~NumLess(m, values[i])

\* the list minMax_scaler stores for a validated column
MinMaxColumn(data) ==
    LET valid_values == ValidValues(data)
        min_value == MinOf(valid_values)
        max_value == MaxOf(valid_values)
    IN  IF valid_values = <<>> THEN data
        ELSE IF PyEq(max_value, min_value)
        THEN [i \in 1..Len(data) |-> IF ~IsNone(data[i]) THEN Zero ELSE NoneCell]
        ELSE [i \in 1..Len(data) |->
                IF ~IsNone(data[i])
                THEN NumDiv(NumSub(data[i], min_value), NumSub(max_value, min_value))
                ELSE NoneCell]

\* the loop of minMax_scaler from the k-th target column on
RECURSIVE MinMaxFrom(_, _, _)
MinMaxFrom(ds, targets, k) ==
    IF k > Len(targets) THEN Outcome(ds, "none", EmptyDataset)
    ELSE LET col == targets[k]
             e == ValidateNumericColumn(ds, col)
         IN  IF e # "none" THEN Outcome(ds, e, EmptyDataset)
             ELSE MinMaxFrom(SetCol(ds, col, MinMaxColumn(ds.col[col])), targets, k + 1)

\* Scaler.minMax_scaler
MinMaxScaler(ds, order) == MinMaxFrom(ds, GetTargetColumns(ds, order), 1)

\* the list standard_scaler stores for a validated column
StandardColumn(data) ==
    LET mean_val == MeanOf(data)
        std_val == StdevOf(data)
    IN  [i \in 1..Len(data) |->
            IF ~IsNone(data[i]) /\ std_val.n = 0 THEN Zero
            ELSE IF ~IsNone(data[i]) THEN NumDiv(NumSub(data[i], mean_val), std_val)
            ELSE NoneCell]

\* the loop of standard_scaler from the k-th target column on
RECURSIVE StandardFrom(_, _, _)
StandardFrom(ds, targets, k) ==
    IF k > Len(targets) THEN Outcome(ds, "none", EmptyDataset)
    ELSE LET col == targets[k]
             e == ValidateNumericColumn(ds, col)
         IN  IF e # "none" THEN Outcome(ds, e, EmptyDataset)
             ELSE StandardFrom(SetCol(ds, col, StandardColumn(ds.col[col])), targets, k + 1)

\* Scaler.standard_scaler
StandardScaler(ds, order) == StandardFrom(ds, GetTargetColumns(ds, order), 1)

(***************************************************************************)
(* preprocessing.py: Encoder.  `order` is the order in which the loop      *)
(* `for col in columns` visits the set.                                    *)
(***************************************************************************)
\* [v if v is not None else '__MISSING__' for v in self.dataset[col]]
WithSentinel(data) ==
    [i \in 1..Len(data) |-> IF IsNone(data[i]) THEN StrCell("__MISSING__") ELSE data[i]]

\* sorted(set(values)) raises TypeError when it must compare a str with a number
SortFails(values) ==
    /\ \E i \in 1..Len(values) : values[i].k = "str"
    /\ \E i \in 1..Len(values) : IsNumeric(values[i])

\* the distinct values in the order of their first occurrence, not sorted
UniqueCategoriesUnsorted(values) == FirstOccurrences(values)

\* sorted(set(values))
UniqueCategoriesSorted(values) == Sorted(FirstOccurrences(values))

\* [list_map[value] for value in values]
EncodedValues(values) ==
    LET cats == UniqueCategoriesSorted(values)
    IN  [i \in 1..Len(values) |->
            IntCell((CHOOSE j \in 1..Len(cats) : PyEq(cats[j], values[i])) - 1)]

\* the loop of label_encode from the k-th column on
RECURSIVE LabelFrom(_, _, _)
LabelFrom(ds, order, k) ==
    IF k > Len(order) THEN Outcome(ds, "none", EmptyDataset)
    ELSE LET col == order[k]
         IN  IF ~HasCol(ds, col) THEN Outcome(ds, "KeyError", EmptyDataset)
             ELSE IF SortFails(WithSentinel(ds.col[col]))
             THEN Outcome(ds, "TypeError", EmptyDataset)
             ELSE LabelFrom(SetCol(ds, col, EncodedValues(WithSentinel(ds.col[col]))),
                            order, k + 1)

\* Encoder.label_encode
LabelEncode(ds, order) == LabelFrom(ds, order, 1)

\* the digits after the point of rem/d, at most k of them
RECURSIVE FracDigits(_, _, _)
FracDigits(rem, d, k) ==
    IF rem = 0 \/ k = 0 THEN ""
    ELSE ToString((rem * 10) \div d) \o FracDigits((rem * 10) % d, d, k - 1)

\* f"{cat}": a str as it is, an int in decimal, a rational float as its decimal
\* expansion (cut after 16 digits), an irrational one by its exact form: like
\* repr, distinct floats get distinct texts
Format(cat) ==
    CASE cat.k = "str" -> cat.s
      [] cat.k = "int" -> ToString(cat.n)
      [] cat.k = "float" /\ cat.r = 1 ->
            (IF cat.n < 0 THEN "-" ELSE "") \o ToString(Abs(cat.n) \div cat.d) \o "." \o
            (IF Abs(cat.n) % cat.d = 0 THEN "0" ELSE FracDigits(Abs(cat.n) % cat.d, cat.d, 16))
      [] cat.k = "float" /\ cat.r # 1 ->
            ToString(cat.n) \o "/" \o ToString(cat.d) \o "*sqrt(" \o ToString(cat.r) \o ")"
      [] cat.k = "none" -> "None"

\* for cat in unique_categories_sorted: self.dataset[f"{col}_{cat}"] = [...]
RECURSIVE AddCategoryColumns(_, _, _, _, _)
AddCategoryColumns(ds, col, values, cats, j) ==
    IF j > Len(cats) THEN ds
    ELSE AddCategoryColumns(
             SetCol(ds, col \o "_" \o Format(cats[j]),
                    [i \in 1..Len(values) |->
                        IF PyEq(values[i], cats[j]) THEN IntCell(1) ELSE IntCell(0)]),
             col, values, cats, j + 1)

\* the loop of oneHot_encode from the k-th column on
RECURSIVE OneHotFrom(_, _, _)
OneHotFrom(ds, order, k) ==
    IF k > Len(order) THEN Outcome(ds, "none", EmptyDataset)
    ELSE LET col == order[k]
             values == WithSentinel(ds.col[col])
         IN  IF ~HasCol(ds, col) THEN Outcome(ds, "KeyError", EmptyDataset)
             ELSE IF SortFails(values) THEN Outcome(ds, "TypeError", EmptyDataset)
             ELSE OneHotFrom(
                      DelCol(AddCategoryColumns(ds, col, values,
                                                UniqueCategoriesSorted(values), 1), col),
                      order, k + 1)

\* Encoder.oneHot_encode
OneHotEncode(ds, order) == OneHotFrom(ds, order, 1)

(***************************************************************************)
(* preprocessing.py: Preprocessing, the facade, as a state machine.        *)
(***************************************************************************)
VARIABLES
    dataset,      \* the dict shared by the facade and its components
    state,        \* "raw": not yet wrapped; "ready": constructed; "failed"
    components,   \* the components the constructor has created
    audit,        \* whether calls are recorded in `last` (fixed from the start)
    last          \* the last call on the facade and how it ended, when recorded

vars == <<dataset, state, components, audit, last>>

\* the column names of the initial datasets, in the orders they are inserted;
\* "b_x" is the name one-hot encoding gives to the category x of "b"
KeyLists == {<<>>, <<"a">>, <<"b">>, <<"a", "b">>, <<"b", "b_x">>}

\* the cells an initial column may hold: "a" is numeric, "b" and "b_x" categorical
Domain(c) == IF c = "a" THEN {NoneCell, IntCell(1), IntCell(2)}
             ELSE IF c = "b" THEN {NoneCell, StrCell("x"), StrCell("y")}
             ELSE {NoneCell, StrCell("x")}

\* the cells of the initial datasets whose sequences of calls are followed
ChainCells == {NoneCell, IntCell(1), IntCell(2), StrCell("x")}

\* the lists of at most rows cells of column c
ColumnsOf(c, rows) == UNION {[1..n -> Domain(c)] : n \in 0..rows}

\* the dicts a caller may hand to Preprocessing: the columns need not agree in length
InitialDatasets(rows) ==
    UNION {{[keys |-> ks, col |-> f] :
              f \in {g \in [{ks[i] : i \in 1..Len(ks)} ->
                              ColumnsOf("a", rows) \cup ColumnsOf("b", rows)] :
                        \A c \in DOMAIN g : g[c] \in ColumnsOf(c, rows)}} :
           ks \in KeyLists}

\* the cells of a dataset
CellsOf(ds) == UNION {{ds.col[c][i] : i \in 1..Len(ds.col[c])} : c \in Keys(ds)}

\* the column sets a caller passes ("zz" is in no dataset); {} stands for an
\* omitted argument as well
TargetSets == {{}, {"a"}, {"b"}, {"zz"}, {"a", "b"}, {"a", "zz"}}

\* the orders in which Python may iterate the set
Orders(columns) ==
    {o \in [1..Cardinality(columns) -> columns] :
        \A i, j \in 1..Cardinality(columns) : o[i] = o[j] => i = j}

\* the default_value a caller passes to fillna
DefaultValues == {StrCell("d")}

FillMethods == {"mean", "median", "mode", "default_value", "bogus"}

ScaleMethods == {"minMax", "standard", "bogus"}

EncodeMethods == {"label", "oneHot", "bogus"}

AllComponents == {"Statistics", "MissingValueProcessor", "Scaler", "Encoder"}

NoCall == [op |-> "none", columns |-> {}, order |-> <<>>, method |-> "",
           default_value |-> NoneCell, err |-> "none", pre |-> EmptyDataset,
           ret |-> EmptyDataset, returned |-> "none", ran |-> {}, warned |-> FALSE]

\* a finished call: what it was, what it ran and how it ended
Call(op, columns, order, method, dv, out, returned, ran) ==
    IF ~audit THEN NoCall
    ELSE [op |-> op, columns |-> columns, order |-> order, method |-> method,
          default_value |-> dv, err |-> out.err, pre |-> dataset, ret |-> out.ret,
          returned |-> IF out.err = "none" THEN returned ELSE "none", ran |-> ran,
          warned |-> FALSE]

\* sequences of calls, not recorded
Init ==
    /\ dataset \in {ds \in InitialDatasets(MaxChainRows) : CellsOf(ds) \subseteq ChainCells}
    /\ state = "raw"
    /\ components = {}
    /\ audit = FALSE
    /\ last = NoCall

\* calls recorded in `last`
InitCall ==
    /\ dataset \in InitialDatasets(MaxRows)
    /\ state = "raw"
    /\ components = {}
    /\ audit = TRUE
    /\ last = NoCall

\* sequences of calls, recorded in `last`
InitAfterEncode ==
    /\ dataset \in {ds \in InitialDatasets(MaxChainRows) : CellsOf(ds) \subseteq ChainCells}
    /\ state = "raw"
    /\ components = {}
    /\ audit = TRUE
    /\ last = NoCall

\* _validate_dataset_shape comparing nothing
ValidateDatasetShapeSkipped(ds) == "none"

\* Preprocessing._validate_dataset_shape
ValidateDatasetShape(ds) ==
    LET sizes == [i \in 1..Len(ds.keys) |-> Len(ds.col[ds.keys[i]])]
    IN  IF \A i \in 1..Len(sizes) : sizes[i] = sizes[1] THEN "none" ELSE "ValueError"

\* Preprocessing.__init__
Construct ==
    /\ state = "raw"
    /\ LET e == ValidateDatasetShape(dataset)
           built == e = "none" /\ StatisticsInit(dataset) = "none"
       IN  /\ state' = IF built THEN "ready" ELSE "failed"
           /\ components' = IF built THEN AllComponents ELSE {}
           /\ last' = IF ~audit THEN NoCall
                      ELSE [NoCall EXCEPT
                              !.op = "__init__", !.pre = dataset,
                              !.err = IF built THEN "none" ELSE "ValueError",
                              !.ran = IF e = "none"
                                      THEN {"_validate_dataset_shape", "Statistics.__init__"}
                                      ELSE {"_validate_dataset_shape"}]
    /\ UNCHANGED <<dataset, audit>>

\* Preprocessing.isna
FacadeIsna(columns, order) ==
    /\ state = "ready"
    /\ LET out == Isna(dataset, order)
       IN  /\ dataset' = out.ds
           /\ last' = Call("isna", columns, order, "", NoneCell, out, "dataset",
                           {"MissingValueProcessor.isna"})
    /\ UNCHANGED <<state, components, audit>>

\* Preprocessing.notna
FacadeNotna(columns, order) ==
    /\ state = "ready"
    /\ LET out == Notna(dataset, order)
       IN  /\ dataset' = out.ds
           /\ last' = Call("notna", columns, order, "", NoneCell, out, "dataset",
                           {"MissingValueProcessor.notna"})
    /\ UNCHANGED <<state, components, audit>>

\* Preprocessing.fillna
FacadeFillna(columns, order, method, default_value) ==
    /\ state = "ready"
    /\ LET out == Fillna(dataset, order, method, default_value)
       IN  /\ dataset' = out.ds
           /\ last' = Call("fillna", columns, order, method, default_value, out, "self",
                           {"MissingValueProcessor.fillna"})
    /\ UNCHANGED <<state, components, audit>>

\* Preprocessing.dropna
FacadeDropna(columns, order) ==
    /\ state = "ready"
    /\ LET out == Dropna(dataset, order)
       IN  /\ dataset' = out.ds
           /\ last' = Call("dropna", columns, order, "", NoneCell, out, "self",
                           {"MissingValueProcessor.dropna"})
    /\ UNCHANGED <<state, components, audit>>

\* ScaleBranch with the two scalers exchanged
ScaleBranchExchanged(method) ==
    IF method = "minMax" THEN "Scaler.standard_scaler"
    ELSE IF method = "standard" THEN "Scaler.minMax_scaler"
    ELSE "raise"

\* the branch Preprocessing.scale takes
ScaleBranch(method) ==
    IF method = "minMax" THEN "Scaler.minMax_scaler"
    ELSE IF method = "standard" THEN "Scaler.standard_scaler"
    ELSE "raise"

\* Preprocessing.scale
FacadeScale(columns, order, method) ==
    /\ state = "ready"
    /\ LET branch == ScaleBranch(method)
           out == CASE branch = "Scaler.minMax_scaler" -> MinMaxScaler(dataset, order)
                    [] branch = "Scaler.standard_scaler" -> StandardScaler(dataset, order)
                    [] OTHER -> Outcome(dataset, "ValueError", EmptyDataset)
       IN  /\ dataset' = out.ds
           /\ last' = Call("scale", columns, order, method, NoneCell, out, "self",
                           IF branch = "raise" THEN {} ELSE {branch})
    /\ UNCHANGED <<state, components, audit>>

\* EncodeBranch without the test for an empty column set
EncodeBranchNoGuard(columns, method) ==
    IF method = "label" THEN "Encoder.label_encode"
    ELSE IF method = "oneHot" THEN "Encoder.oneHot_encode"
    ELSE "raise"

\* the branch Preprocessing.encode takes
EncodeBranch(columns, method) ==
    IF columns = {} THEN "warn"
    ELSE IF method = "label" THEN "Encoder.label_encode"
    ELSE IF method = "oneHot" THEN "Encoder.oneHot_encode"
    ELSE "raise"

\* Preprocessing.encode
FacadeEncode(columns, order, method) ==
    /\ state = "ready"
    /\ LET branch == EncodeBranch(columns, method)
           out == CASE branch = "Encoder.label_encode" -> LabelEncode(dataset, order)
                    [] branch = "Encoder.oneHot_encode" -> OneHotEncode(dataset, order)
                    [] branch = "warn" -> Outcome(dataset, "none", EmptyDataset)
                    [] OTHER -> Outcome(dataset, "ValueError", EmptyDataset)
       IN  /\ dataset' = out.ds
           /\ last' = [Call("encode", columns, order, method, NoneCell, out, "self",
                            IF branch \in {"raise", "warn"} THEN {} ELSE {branch})
                         EXCEPT !.warned = (audit /\ branch = "warn")]
    /\ UNCHANGED <<state, components, audit>>

\* one call on the facade
FacadeCall ==
    \E columns \in TargetSets : \E order \in Orders(columns) :
        \/ FacadeIsna(columns, order)
        \/ FacadeNotna(columns, order)
        \/ FacadeDropna(columns, order)
        \/ \E method \in FillMethods : \E default_value \in DefaultValues :
              FacadeFillna(columns, order, method, default_value)
        \/ \E method \in ScaleMethods : FacadeScale(columns, order, method)
        \/ \E method \in EncodeMethods : FacadeEncode(columns, order, method)

Next == Construct \/ FacadeCall

\* the construction, then the first call on the new facade
NextCall == Construct \/ (last.op = "__init__" /\ FacadeCall)

\* the construction, then calls as long as each follows the construction or an
\* encode that went through: the last call meets columns that were added or removed
NextAfterEncode ==
    \/ Construct
    \/ (last.op = "__init__" /\ FacadeCall)
    \/ (last.op = "encode" /\ last.err = "none" /\ ~last.warned /\ FacadeCall)

\* any sequence of calls on datasets of at most MaxChainRows rows
Spec == Init /\ [][Next]_vars

\* every single call on datasets of at most MaxRows rows, recorded in `last`
SpecCall == InitCall /\ [][NextCall]_vars

\* every call that follows encodes on datasets of at most MaxChainRows rows,
\* recorded in `last`
SpecAfterEncode == InitAfterEncode /\ [][NextAfterEncode]_vars

(***************************************************************************)
(* Properties.  Those about one call read it from `last` and are checked   *)
(* under SpecCall; those about sequences of calls are checked under Spec.  *)
(***************************************************************************)
\* the target columns of the last call
LastTargets == GetTargetColumns(last.pre, last.order)

\* the target columns of the last call that its dataset had
KnownTargets == {LastTargets[k] : k \in 1..Len(LastTargets)} \cap Keys(last.pre)

\* the rows of the dataset the last call started from
RowsBefore == IF last.pre.keys = <<>> THEN 0 ELSE Len(last.pre.col[last.pre.keys[1]])

\* row i of that dataset is null in at least one target column
NullRow(i) == \E c \in KnownTargets : IsNone(last.pre.col[c][i])

\* the rows with a null in a target column (TRUE) or with none (FALSE), in order
RowsWhere(null) ==
    SelectSeq([i \in 1..RowsBefore |-> i], LAMBDA i : NullRow(i) = null)

\* column c of the dataset the last call started from, cut down to the rows idx
Restricted(c, idx) == [j \in 1..Len(idx) |-> last.pre.col[c][idx[j]]]

\* all columns of ds have the same length
SameLengths(ds) == \A c1, c2 \in Keys(ds) : Len(ds.col[c1]) = Len(ds.col[c2])

\* C1: once the facade is constructed, all columns of the Dataset have the same
\* length in every state any sequence of calls, failed or not, can reach
C1_ShapeInvariant == state = "ready" => SameLengths(dataset)

\* after a fillna and a one-hot encoding of "a", with two columns of two rows left
C1_Witness ==
    /\ state = "ready"
    /\ {"b", "a_1"} \subseteq Keys(dataset)
    /\ "a" \notin Keys(dataset)
    /\ Len(dataset.col["b"]) = 2
    /\ \E i \in 1..2 : dataset.col["b"][i] = StrCell("d")

\* C2: construction fails with the shape error, before any component is created,
\* when two columns differ in length, and succeeds when all agree
C2_ConstructionValidatesShape ==
    last.op = "__init__" =>
        IF SameLengths(last.pre)
        THEN state = "ready" /\ last.err = "none" /\ components = AllComponents
        ELSE /\ state = "failed"
             /\ last.err = "ValueError"
             /\ components = {}
             /\ last.ran = {"_validate_dataset_shape"}

\* the constructor has refused {a: two cells, b: one cell}
C2_Witness ==
    /\ state = "failed"
    /\ last.op = "__init__"
    /\ last.pre.keys = <<"a", "b">>
    /\ Len(last.pre.col["a"]) = 2
    /\ Len(last.pre.col["b"]) = 1

\* C3: a fillna, dropna, scale or encode that fails leaves the Dataset as it was
C3_NoPartialMutation ==
    (last.op \in {"fillna", "dropna", "scale", "encode"} /\ last.err # "none")
        => dataset = last.pre

\* C4: fillna with a method that is none of mean, median, mode, default_value
\* fails and changes no cell
C4_InvalidFillMethodFails ==
    (last.op = "fillna" /\ last.method \notin {"mean", "median", "mode", "default_value"})
        => last.err = "ValueError" /\ dataset = last.pre

\* the target columns exist and hold numbers and nulls only, with a null somewhere
NumericWithNulls ==
    /\ LastTargets # <<>>
    /\ \A k \in 1..Len(LastTargets) :
          /\ HasCol(last.pre, LastTargets[k])
          /\ \A i \in 1..RowsBefore :
                LET x == last.pre.col[LastTargets[k]][i] IN IsNone(x) \/ IsNumeric(x)
    /\ \E k \in 1..Len(LastTargets) : \E i \in 1..RowsBefore :
          IsNone(last.pre.col[LastTargets[k]][i])

\* C5: fillna(mean) on numeric columns with nulls puts the mean of the column's
\* non-null values in every null cell and leaves the other cells alone
C5_FillnaMean ==
    (last.op = "fillna" /\ last.method = "mean" /\ NumericWithNulls) =>
        /\ last.err = "none"
        /\ \A c \in KnownTargets :
              /\ Len(dataset.col[c]) = RowsBefore
              /\ \A i \in 1..RowsBefore :
                    IF IsNone(last.pre.col[c][i])
                    THEN PyEq(dataset.col[c][i], MeanOf(ValidValues(last.pre.col[c])))
                    ELSE dataset.col[c][i] = last.pre.col[c][i]

\* the value of maximum frequency in data, the one occurring first among ties
FirstMostFrequent(data) ==
    data[CHOOSE i \in 1..Len(data) :
            /\ \A j \in 1..Len(data) : CountOf(data, data[j]) <= CountOf(data, data[i])
            /\ \A j \in 1..(i - 1) : CountOf(data, data[j]) < CountOf(data, data[i])]

\* C6: fillna(mode) puts, in every null cell of each target column, the value of
\* maximum frequency that occurs first in the column (default_value for an empty
\* column), and leaves the other cells alone
C6_FillnaMode ==
    (last.op = "fillna" /\ last.method = "mode" /\ last.err = "none") =>
        /\ dataset.keys = last.pre.keys
        /\ \A k \in 1..Len(LastTargets) :
              LET c == LastTargets[k]
              IN  /\ HasCol(last.pre, c)
                  /\ Len(dataset.col[c]) = RowsBefore
                  /\ \A i \in 1..RowsBefore :
                        IF IsNone(last.pre.col[c][i])
                        THEN dataset.col[c][i] = FirstMostFrequent(last.pre.col[c])
                        ELSE dataset.col[c][i] = last.pre.col[c][i]
                  /\ last.pre.col[c] = <<>> =>
                        FillValue(last.pre, c, "mode", last.default_value)
                            = Ok(last.default_value)

\* the null of [None, 1, 1] has been filled with 1, though None comes first
C6_Witness ==
    /\ last.op = "fillna" /\ last.method = "mode" /\ last.err = "none"
    /\ last.order = <<"a">>
    /\ last.pre.col["a"] = <<NoneCell, IntCell(1), IntCell(1)>>
    /\ dataset.col["a"] = <<IntCell(1), IntCell(1), IntCell(1)>>

\* C7: dropna removes, from every column, exactly the rows that are null in a
\* target column and keeps the others in order; isna with the same columns then
\* returns columns with no rows
C7_Dropna ==
    (last.op = "dropna" /\ last.err = "none") =>
        /\ dataset.keys = last.pre.keys
        /\ \A c \in Keys(last.pre) : dataset.col[c] = Restricted(c, RowsWhere(FALSE))
        /\ Isna(dataset, last.order).err = "none"
        /\ \A c \in Keys(Isna(dataset, last.order).ret) :
              Isna(dataset, last.order).ret.col[c] = <<>>

\* dropna on "a" has removed the middle row of three, from "b" as well
C7_Witness ==
    /\ last.op = "dropna" /\ last.err = "none"
    /\ last.order = <<"a">>
    /\ last.pre.keys = <<"a", "b">>
    /\ last.pre.col["a"] = <<IntCell(1), NoneCell, IntCell(2)>>
    /\ last.pre.col["b"] = <<StrCell("x"), StrCell("y"), NoneCell>>
    /\ dataset.col["b"] = <<StrCell("x"), NoneCell>>

\* C8: isna returns, over the target columns, the rows with a null in a target
\* column and notna the rows with none, in order; each row is in exactly one of
\* the two; the Dataset is not modified
C8_IsnaNotna ==
    last.op \in {"isna", "notna"} =>
        /\ dataset = last.pre
        /\ last.err = "none" =>
              LET idx == RowsWhere(last.op = "isna")
              IN  /\ last.ret.keys = LastTargets
                  /\ \A c \in Keys(last.ret) :
                        last.ret.col[c] = IF HasCol(last.pre, c)
                                          THEN Restricted(c, idx) ELSE <<>>
        /\ (Isna(last.pre, last.order).err = "none"
                /\ Notna(last.pre, last.order).err = "none") =>
              \A c \in KnownTargets :
                  Len(Isna(last.pre, last.order).ret.col[c])
                    + Len(Notna(last.pre, last.order).ret.col[c]) = RowsBefore

\* isna on {a, b} has returned rows 2 and 3 of three
C8_Witness ==
    /\ last.op = "isna" /\ last.err = "none"
    /\ last.columns = {"a", "b"}
    /\ last.pre.keys = <<"a", "b">>
    /\ last.pre.col["a"] = <<IntCell(1), NoneCell, IntCell(2)>>
    /\ last.pre.col["b"] = <<StrCell("x"), StrCell("y"), NoneCell>>
    /\ last.ret.col["a"] = <<NoneCell, IntCell(2)>>
    /\ last.ret.col["b"] = <<StrCell("y"), NoneCell>>

\* C9: scale runs the min-max scaler exactly for minMax and the standard scaler
\* exactly for standard, never both, and returns the facade; any other method
\* fails with the unsupported-method error and leaves the Dataset as it was
C9_ScaleDispatch ==
    last.op = "scale" =>
        /\ (last.method = "minMax") = (last.ran = {"Scaler.minMax_scaler"})
        /\ (last.method = "standard") = (last.ran = {"Scaler.standard_scaler"})
        /\ Cardinality(last.ran) <= 1
        /\ last.err = "none" => last.returned = "self"
        /\ (last.method = "minMax" /\ last.err = "none") =>
              \A c \in KnownTargets : \A i \in 1..Len(dataset.col[c]) :
                  /\ ~NumLess(dataset.col[c][i], Zero)
                  /\ ~NumLess(IntCell(1), dataset.col[c][i])
        /\ (last.method = "standard" /\ last.err = "none") =>
              \A c \in KnownTargets : SumCells(dataset.col[c]).n = 0
        /\ last.method \notin {"minMax", "standard"} =>
              last.err = "ValueError" /\ last.ran = {} /\ dataset = last.pre

\* scale(standard) has turned [1, 2] into [-1.0, 1.0]
C9_Witness ==
    /\ last.op = "scale" /\ last.method = "standard" /\ last.err = "none"
    /\ last.pre.keys = <<"a">>
    /\ last.pre.col["a"] = <<IntCell(1), IntCell(2)>>
    /\ dataset.col["a"] = <<FloatCell(-1, 1, 1), FloatCell(1, 1, 1)>>

\* C10: encode with no target column warns, returns the facade and changes
\* nothing; with target columns and a method that is neither label nor oneHot it
\* fails with the unsupported-method error and changes nothing
C10_EncodeGuards ==
    last.op = "encode" =>
        /\ last.columns = {} =>
              /\ last.err = "none"
              /\ last.warned
              /\ last.returned = "self"
              /\ last.ran = {}
              /\ dataset = last.pre
        /\ (last.columns # {} /\ last.method \notin {"label", "oneHot"}) =>
              /\ last.err = "ValueError"
              /\ ~last.warned
              /\ last.ran = {}
              /\ dataset = last.pre

\* encode(set(), oneHot) on a dataset with cells has warned and changed nothing
C10_Witness ==
    /\ last.op = "encode" /\ last.columns = {} /\ last.method = "oneHot"
    /\ last.warned
    /\ last.pre.keys = <<"a">>
    /\ last.pre.col["a"] = <<IntCell(1), NoneCell>>
    /\ dataset = last.pre

\* the target columns exist and hold numbers and nulls only
NumericOrNullTargets ==
    /\ LastTargets # <<>>
    /\ \A k \in 1..Len(LastTargets) :
          /\ HasCol(last.pre, LastTargets[k])
          /\ \A i \in 1..RowsBefore :
                LET x == last.pre.col[LastTargets[k]][i] IN IsNone(x) \/ IsNumeric(x)

\* what min-max scaling makes of cell x of a column with the non-null values valid
MinMaxExpected(x, valid) ==
    IF IsNone(x) THEN NoneCell
    ELSE IF PyEq(MinOf(valid), MaxOf(valid)) THEN Zero
    ELSE NumDiv(NumSub(x, MinOf(valid)), NumSub(MaxOf(valid), MinOf(valid)))

\* C11: min-max scaling of numeric columns that may hold nulls keeps the nulls
\* and the length, turns every non-null cell into 0.0 when minimum and maximum
\* agree and into (x - min)/(max - min), within [0, 1], otherwise
C11_MinMaxScale ==
    (last.op = "scale" /\ last.method = "minMax" /\ NumericOrNullTargets) =>
        /\ last.err = "none"
        /\ \A c \in KnownTargets :
              LET data == last.pre.col[c]
              IN  /\ Len(dataset.col[c]) = Len(data)
                  /\ \A i \in 1..Len(data) :
                        LET y == dataset.col[c][i]
                        IN  /\ y = MinMaxExpected(data[i], ValidValues(data))
                            /\ ~IsNone(y) =>
                                  ~NumLess(y, Zero) /\ ~NumLess(IntCell(1), y)

\* the last call was encode with this method on columns the dataset had
EncodeOfKnown(method) ==
    /\ last.op = "encode" /\ last.method = method
    /\ last.columns # {}
    /\ last.columns \subseteq Keys(last.pre)

\* the columns of the last call are categorical: they hold strings and nulls only
CategoricalTargets ==
    \A c \in last.columns : \A i \in 1..Len(last.pre.col[c]) :
        IsNone(last.pre.col[c][i]) \/ last.pre.col[c][i].k = "str"

\* the distinct values of a column, a null standing for the sentinel token
DistinctValues(data) == ItemsetOf(WithSentinel(data))

\* the number of distinct values of the column that sort before the value of x
RankOf(x, data) ==
    Cardinality({v \in DistinctValues(data) :
                    CellLess(v, IF IsNone(x) THEN StrCell("__MISSING__") ELSE x)})

\* C12: label encoding overwrites each target column with the rank, from 0, of
\* each cell's value among the column's sorted distinct values, a null counting
\* as the sentinel: equal values get equal codes, distinct values distinct
\* codes, and the itemset of the result is 0 .. k-1 for k distinct values
C12_LabelEncode ==
    (EncodeOfKnown("label") /\ CategoricalTargets) =>
        /\ last.err = "none"
        /\ dataset.keys = last.pre.keys
        /\ \A c \in last.columns :
              LET data == last.pre.col[c]
                  codes == dataset.col[c]
              IN  /\ Len(codes) = Len(data)
                  /\ \A i \in 1..Len(data) : codes[i] = IntCell(RankOf(data[i], data))
                  /\ \A i, j \in 1..Len(data) :
                        (codes[i] = codes[j]) = (data[i] = data[j])
                  /\ ItemsetOf(codes)
                        = {IntCell(n) : n \in 0..(Cardinality(DistinctValues(data)) - 1)}
        /\ \A c \in Keys(last.pre) \ last.columns : dataset.col[c] = last.pre.col[c]

\* label encoding has turned [y, None, x] into [2, 0, 1]
C12_Witness ==
    /\ EncodeOfKnown("label") /\ last.err = "none"
    /\ last.columns = {"b"}
    /\ last.pre.col["b"] = <<StrCell("y"), NoneCell, StrCell("x")>>
    /\ dataset.col["b"] = <<IntCell(2), IntCell(0), IntCell(1)>>

\* the name one-hot encoding gives the column of value v of column c
CategoryColumn(c, v) == c \o "_" \o Format(v)

\* the indicator of value v over the column: 1 in the rows that hold v, else 0
Indicator(data, v) ==
    [i \in 1..Len(data) |->
        IF PyEq(WithSentinel(data)[i], v) THEN IntCell(1) ELSE IntCell(0)]

\* C13: one-hot encoding of one column c creates, for each distinct value v of c
\* (a null as the sentinel), the column c_v with 1 in the rows where c is v and
\* 0 elsewhere; c is gone afterwards and every row has exactly one 1 among the
\* new columns
C13_OneHotEncode ==
    (EncodeOfKnown("oneHot") /\ Cardinality(last.columns) = 1 /\ CategoricalTargets) =>
        /\ last.err = "none"
        /\ \A c \in last.columns :
              LET data == last.pre.col[c]
              IN  /\ ~HasCol(dataset, c)
                  /\ \A v \in DistinctValues(data) :
                        /\ HasCol(dataset, CategoryColumn(c, v))
                        /\ dataset.col[CategoryColumn(c, v)] = Indicator(data, v)
                  /\ \A i \in 1..Len(data) :
                        Cardinality({v \in DistinctValues(data) :
                            dataset.col[CategoryColumn(c, v)][i] = IntCell(1)}) = 1

\* one-hot encoding of b = [x, None, x], beside a column a, has replaced b by
\* b___MISSING__ = [0, 1, 0] and b_x = [1, 0, 1]
C13_Witness ==
    /\ EncodeOfKnown("oneHot") /\ last.err = "none"
    /\ last.columns = {"b"}
    /\ last.pre.keys = <<"a", "b">>
    /\ last.pre.col["b"] = <<StrCell("x"), NoneCell, StrCell("x")>>
    /\ dataset.keys = <<"a", "b___MISSING__", "b_x">>
    /\ dataset.col["b___MISSING__"] = <<IntCell(0), IntCell(1), IntCell(0)>>
    /\ dataset.col["b_x"] = <<IntCell(1), IntCell(0), IntCell(1)>>

\* C14: one-hot encoding of a column c of the dataset changes the number of
\* columns by the number of distinct values of c minus one and leaves every
\* other column that existed before as it was
C14_OneHotColumnCount ==
    (EncodeOfKnown("oneHot") /\ Cardinality(last.columns) = 1) =>
        \A c \in last.columns :
            /\ Len(dataset.keys) - Len(last.pre.keys)
                  = Cardinality(DistinctValues(last.pre.col[c])) - 1
            /\ \A o \in Keys(last.pre) \ {c} :
                  HasCol(dataset, o) /\ dataset.col[o] = last.pre.col[o]

\* the last call's operation on the dataset it started from, with every column
\* of that dataset named, in the dict's order
OnCurrentColumns ==
    CASE last.op = "isna" -> Isna(last.pre, last.pre.keys)
      [] last.op = "notna" -> Notna(last.pre, last.pre.keys)
      [] last.op = "dropna" -> Dropna(last.pre, last.pre.keys)
      [] last.op = "fillna" ->
            Fillna(last.pre, last.pre.keys, last.method, last.default_value)
      [] last.op = "scale" /\ last.method = "minMax" ->
            MinMaxScaler(last.pre, last.pre.keys)
      [] last.op = "scale" /\ last.method = "standard" ->
            StandardScaler(last.pre, last.pre.keys)
      [] OTHER -> Outcome(last.pre, "ValueError", EmptyDataset)

\* C15: for isna, notna, fillna, dropna and scale an empty column set stands for
\* the columns the Dataset has when the call is made, whatever earlier calls
\* added or removed; on a Dataset with no columns the call works on none: it
\* does not fail for want of a column, changes nothing and selects nothing
C15_EmptySetMeansCurrentColumns ==
    (last.op \in {"isna", "notna", "fillna", "dropna", "scale"} /\ last.columns = {}) =>
        IF last.pre.keys = <<>>
        THEN /\ last.err \notin {"IndexError", "KeyError", "TypeError"}
             /\ dataset = last.pre
             /\ last.ret = EmptyDataset
        ELSE /\ last.err = OnCurrentColumns.err
             /\ dataset = OnCurrentColumns.ds
             /\ last.ret = OnCurrentColumns.ret

\* C16: after a fillna that returns, with a recognised method and a non-null
\* default_value, no cell of a target column is null
C16_FillnaLeavesNoNull ==
    (/\ last.op = "fillna" /\ last.err = "none"
     /\ last.method \in {"mean", "median", "mode", "default_value"}
     /\ ~IsNone(last.default_value)) =>
        \A k \in 1..Len(LastTargets) :
            /\ HasCol(dataset, LastTargets[k])
            /\ \A i \in 1..Len(dataset.col[LastTargets[k]]) :
                  ~IsNone(dataset.col[LastTargets[k]][i])

=============================================================================
